---- MODULE Spec2Model ----
(***************************************************************************)
(* The Redfish power and management adapters of ironic-redfish, acting on  *)
(* one node and the remote system it names.  Every adapter method is one   *)
(* action.  An action records what the invocation did:                     *)
(* the remote interactions it made, in order and with their                *)
(* arguments (calls), the error messages it logged (logged), the value it  *)
(* returned (result) and the exception it ended with (raised).  The remote *)
(* system is the environment: it reports a vendor power state and a boot   *)
(* attribute, both of which may change at any time, and each of its calls  *)
(* may succeed or fail.  Spec is the adapter called by one caller at a     *)
(* time; SpecLocked is the adapter called by several callers of the host,  *)
(* each through a task it acquired, with the methods taken step by step.   *)
(***************************************************************************)
EXTENDS Integers, Sequences, FiniteSets, TLC

VARIABLES
    power_state,  \* system.power_state, as the remote system reports it
    boot,         \* system.boot: [target, enabled], as the remote system reports it
    op,           \* the adapter method invoked last ("none" before the first)
    node,         \* task.node.uuid: the node every invocation is about
    args,         \* the other arguments of the last invocation, a tuple of strings
    calls,        \* the remote interactions of the last invocation, in order
    logged,       \* the LOG.error messages of that invocation, in order
    result,       \* the value that invocation returned (None when it raised)
    raised,       \* the exception that invocation ended with (NoException if none)
    met,          \* what that invocation met: how get_system and the command ended
    lock,         \* the caller that holds the node's exclusive lock (0: nobody)
    pc,           \* where each caller is: idle, holding a task, or inside a method
    shared,       \* whether each caller's task was acquired shared
    method,       \* the adapter method each caller is inside ("none" outside one)
    seen,         \* the power state each caller read inside reboot
    disturbed     \* whether another caller's reset reached the node since that read

\* what the callers of the host are doing
callers == <<lock, pc, shared, method, seen, disturbed>>

vars ==
    <<power_state, boot, op, node, args, calls, logged, result, raised, met, callers>>

--------------------------------------------------------------------------
(* Bounds of the model. *)

\* task.node.uuid ranges over 1..NumNodes
NumNodes == 2
\* the text of an underlying library error ranges over 1..NumErrors
NumErrors == 2

\* the host's callers are 1..NumCallers
NumCallers == 2

Nodes == 1..NumNodes
Callers == 1..NumCallers
Errors == 1..NumErrors

--------------------------------------------------------------------------
(* Values. *)

\* Python's None: what dict.get gives for a missing key, and what a method
\* that ends without a return statement gives.
None == "None"

\* ironic.common.states: the power states the host can pass in.
POWER_ON == "states.POWER_ON"
POWER_OFF == "states.POWER_OFF"
REBOOT == "states.REBOOT"
SOFT_POWER_OFF == "states.SOFT_POWER_OFF"
HostPowerStates == {POWER_ON, POWER_OFF, REBOOT, SOFT_POWER_OFF}

\* sushy: the power states the remote system can report.  The last one
\* stands for any value outside the four the adapter maps.
SYSTEM_POWER_STATE_ON == "sushy.SYSTEM_POWER_STATE_ON"
SYSTEM_POWER_STATE_POWERING_ON == "sushy.SYSTEM_POWER_STATE_POWERING_ON"
SYSTEM_POWER_STATE_OFF == "sushy.SYSTEM_POWER_STATE_OFF"
SYSTEM_POWER_STATE_POWERING_OFF == "sushy.SYSTEM_POWER_STATE_POWERING_OFF"
DeclaredVendorPowerStates ==
    {SYSTEM_POWER_STATE_ON, SYSTEM_POWER_STATE_POWERING_ON,
     SYSTEM_POWER_STATE_OFF, SYSTEM_POWER_STATE_POWERING_OFF}
VendorPowerStates == DeclaredVendorPowerStates \cup {None}

\* sushy: the reset commands.
RESET_ON == "sushy.RESET_ON"
RESET_FORCE_OFF == "sushy.RESET_FORCE_OFF"
RESET_FORCE_RESTART == "sushy.RESET_FORCE_RESTART"
RESET_NMI == "sushy.RESET_NMI"

\* ironic.common.boot_devices
PXE == "boot_devices.PXE"
DISK == "boot_devices.DISK"
CDROM == "boot_devices.CDROM"
BIOS == "boot_devices.BIOS"
HostBootDevices == {PXE, DISK, CDROM, BIOS}

\* sushy: boot source targets and the persistence of the selection.  None
\* stands for any target outside the four the adapter maps.
BOOT_SOURCE_TARGET_PXE == "sushy.BOOT_SOURCE_TARGET_PXE"
BOOT_SOURCE_TARGET_HDD == "sushy.BOOT_SOURCE_TARGET_HDD"
BOOT_SOURCE_TARGET_CD == "sushy.BOOT_SOURCE_TARGET_CD"
BOOT_SOURCE_TARGET_BIOS_SETUP == "sushy.BOOT_SOURCE_TARGET_BIOS_SETUP"
DeclaredVendorBootTargets ==
    {BOOT_SOURCE_TARGET_PXE, BOOT_SOURCE_TARGET_HDD,
     BOOT_SOURCE_TARGET_CD, BOOT_SOURCE_TARGET_BIOS_SETUP}
VendorBootTargets == DeclaredVendorBootTargets \cup {None}

BOOT_SOURCE_ENABLED_ONCE == "sushy.BOOT_SOURCE_ENABLED_ONCE"
BOOT_SOURCE_ENABLED_CONTINUOUS == "sushy.BOOT_SOURCE_ENABLED_CONTINUOUS"
BOOT_SOURCE_ENABLED_DISABLED == "sushy.BOOT_SOURCE_ENABLED_DISABLED"
VendorBootEnabled ==
    {BOOT_SOURCE_ENABLED_ONCE, BOOT_SOURCE_ENABLED_CONTINUOUS,
     BOOT_SOURCE_ENABLED_DISABLED}

--------------------------------------------------------------------------
(* Python dictionaries: a dict literal is the sequence of its <<key, value>> *)
(* items in the order written, which is the order a dict iterates in.        *)

\* d.get(k)
DictGet(d, k) ==
    IF \E i \in 1..Len(d) : d[i][1] = k
    THEN d[CHOOSE i \in 1..Len(d) : d[i][1] = k][2]
    ELSE None

\* list(d)
DictKeys(d) == [i \in 1..Len(d) |-> d[i][1]]

--------------------------------------------------------------------------
(* What the environment decides for one invocation. *)

\* redfish_utils.get_system(task.node): a handle, or one of the errors the
\* connection helper raises.
GetSystemOutcomes ==
    {"ok", "RedfishConnectionError", "MissingParameterValue", "InvalidParameterValue"}

\* redfish_utils.parse_driver_info(task.node)
ParseDriverInfoOutcomes == {"ok", "MissingParameterValue", "InvalidParameterValue"}

\* A command sent to the remote system: it succeeds, or fails with an error
\* of the sushy library.
RemoteCallOutcomes ==
    {[exc |-> "none", error |-> 0]} \cup [exc : {"SushyError"}, error : Errors]

\* What one invocation meets: no command is sent without a handle.
Outcomes ==
    {o \in [gs : GetSystemOutcomes, rs : RemoteCallOutcomes] :
        o.gs # "ok" => o.rs.exc = "none"}
NothingFails == [gs |-> "ok", rs |-> [exc |-> "none", error |-> 0]]
\* the connection helper ends as gs, and no command is sent
Resolving(gs) == [gs |-> gs, rs |-> [exc |-> "none", error |-> 0]]

--------------------------------------------------------------------------
(* Exceptions and the record of one invocation. *)

NoException == [type |-> "none", msg |-> "", node |-> 0, error |-> 0]

\* error_msg, and ironic_redfish.RedfishError(error=error_msg)
ErrorMsg(msg, n, e) == [msg |-> msg, node |-> n, error |-> e]
RedfishError(error_msg) ==
    [type |-> "RedfishError", msg |-> error_msg.msg, node |-> error_msg.node,
     error |-> error_msg.error]

\* an exception of a collaborator that no except clause of the adapter catches
Uncaught(type, e) == [type |-> type, msg |-> "", node |-> 0, error |-> e]

Returns(cs, value) ==
    [calls |-> cs, logged |-> <<>>, result |-> value, raised |-> NoException]
Raises(cs, log, exc) ==
    [calls |-> cs, logged |-> log, result |-> None, raised |-> exc]

\* the remote interactions, as they appear in calls
CallGetSystem(n) == <<"get_system", ToString(n)>>
CallParseDriverInfo(n) == <<"parse_driver_info", ToString(n)>>
ReadPowerState(v) == <<"power_state", v>>
ReadBoot(b) == <<"boot", b.target, b.enabled>>
CallResetSystem(value) == <<"reset_system", value>>
CallSetSystemBootSource(target, enabled) ==
    <<"set_system_boot_source", target, enabled>>

--------------------------------------------------------------------------
(* power.py *)

\* a slip: a system that is powering off counted as on
GET_POWER_STATE_MAP_powering_off_on ==
    << <<SYSTEM_POWER_STATE_ON, POWER_ON>>,
       <<SYSTEM_POWER_STATE_POWERING_ON, POWER_ON>>,
       <<SYSTEM_POWER_STATE_OFF, POWER_OFF>>,
       <<SYSTEM_POWER_STATE_POWERING_OFF, POWER_ON>> >>

GET_POWER_STATE_MAP ==
    << <<SYSTEM_POWER_STATE_ON, POWER_ON>>,
       <<SYSTEM_POWER_STATE_POWERING_ON, POWER_ON>>,
       <<SYSTEM_POWER_STATE_OFF, POWER_OFF>>,
       <<SYSTEM_POWER_STATE_POWERING_OFF, POWER_OFF>> >>

\* a slip: the graceful commands in place of the forced ones
SET_POWER_STATE_MAP_graceful ==
    << <<POWER_ON, RESET_ON>>,
       <<POWER_OFF, "sushy.RESET_GRACEFUL_SHUTDOWN">>,
       <<REBOOT, "sushy.RESET_GRACEFUL_RESTART">> >>

\* a slip: a reboot sent as the command that powers on
SET_POWER_STATE_MAP_reboot_on ==
    << <<POWER_ON, RESET_ON>>,
       <<POWER_OFF, RESET_FORCE_OFF>>,
       <<REBOOT, RESET_ON>> >>

SET_POWER_STATE_MAP ==
    << <<POWER_ON, RESET_ON>>,
       <<POWER_OFF, RESET_FORCE_OFF>>,
       <<REBOOT, RESET_FORCE_RESTART>> >>

\* RedfishPower.validate
validate(n, pd) ==
    IF pd # "ok"
    THEN Raises(<<CallParseDriverInfo(n)>>, <<>>, Uncaught(pd, 0))
    ELSE Returns(<<CallParseDriverInfo(n)>>, None)

\* RedfishPower.get_power_state, the remote system reporting power state v
get_power_state(n, v, gs) ==
    IF gs # "ok"
    THEN Raises(<<CallGetSystem(n)>>, <<>>, Uncaught(gs, 0))
    ELSE Returns(<<CallGetSystem(n), ReadPowerState(v)>>,
                 DictGet(GET_POWER_STATE_MAP, v))

\* a change: a target outside the table refused before anything is sent
set_power_state_checks_target(n, target, gs, rs) ==
    LET reset == CallResetSystem(DictGet(SET_POWER_STATE_MAP, target))
        error_msg == ErrorMsg("Redfish set power state failed for node", n, rs.error)
    IN  IF gs # "ok"
        THEN Raises(<<CallGetSystem(n)>>, <<>>, Uncaught(gs, 0))
        ELSE IF DictGet(SET_POWER_STATE_MAP, target) = None
        THEN Raises(<<CallGetSystem(n)>>, <<>>, Uncaught("InvalidParameterValue", 0))
        ELSE IF rs.exc = "SushyError"
        THEN Raises(<<CallGetSystem(n), reset>>, <<error_msg>>, RedfishError(error_msg))
        ELSE Returns(<<CallGetSystem(n), reset>>, None)

\* a slip: the command sent again when it fails
set_power_state_retry(n, target, gs, rs) ==
    LET reset == CallResetSystem(DictGet(SET_POWER_STATE_MAP, target))
        error_msg == ErrorMsg("Redfish set power state failed for node", n, rs.error)
    IN  IF gs # "ok"
        THEN Raises(<<CallGetSystem(n)>>, <<>>, Uncaught(gs, 0))
        ELSE IF rs.exc = "SushyError"
        THEN Raises(<<CallGetSystem(n), reset, reset>>, <<error_msg>>,
                    RedfishError(error_msg))
        ELSE Returns(<<CallGetSystem(n), reset>>, None)

\* RedfishPower.set_power_state
set_power_state(n, target, gs, rs) ==
    LET reset == CallResetSystem(DictGet(SET_POWER_STATE_MAP, target))
        error_msg == ErrorMsg("Redfish set power state failed for node", n, rs.error)
    IN  IF gs # "ok"
        THEN Raises(<<CallGetSystem(n)>>, <<>>, Uncaught(gs, 0))
        ELSE IF rs.exc = "SushyError"
        THEN Raises(<<CallGetSystem(n), reset>>, <<error_msg>>, RedfishError(error_msg))
        ELSE Returns(<<CallGetSystem(n), reset>>, None)

\* a slip: the handle resolved inside the try block, by a handler that
\* catches every exception
reboot_wraps_all(n, v, gs, rs) ==
    LET current_power_state == DictGet(GET_POWER_STATE_MAP, v)
        reset ==
            IF current_power_state = POWER_ON
            THEN CallResetSystem(DictGet(SET_POWER_STATE_MAP, REBOOT))
            ELSE CallResetSystem(DictGet(SET_POWER_STATE_MAP, POWER_ON))
        error_msg == ErrorMsg("Redfish reboot failed for node", n, rs.error)
        cs == <<CallGetSystem(n), ReadPowerState(v), reset>>
    IN  IF gs # "ok"
        THEN Raises(<<CallGetSystem(n)>>, <<ErrorMsg("Redfish reboot failed for node", n, 0)>>,
                    RedfishError(ErrorMsg("Redfish reboot failed for node", n, 0)))
        ELSE IF rs.exc = "SushyError"
        THEN Raises(cs, <<error_msg>>, RedfishError(error_msg))
        ELSE Returns(cs, None)

\* a slip: the reported state, not its translation, compared with on
reboot_vendor_on(n, v, gs, rs) ==
    LET reset ==
            IF v = SYSTEM_POWER_STATE_ON
            THEN CallResetSystem(DictGet(SET_POWER_STATE_MAP, REBOOT))
            ELSE CallResetSystem(DictGet(SET_POWER_STATE_MAP, POWER_ON))
        error_msg == ErrorMsg("Redfish reboot failed for node", n, rs.error)
        cs == <<CallGetSystem(n), ReadPowerState(v), reset>>
    IN  IF gs # "ok"
        THEN Raises(<<CallGetSystem(n)>>, <<>>, Uncaught(gs, 0))
        ELSE IF rs.exc = "SushyError"
        THEN Raises(cs, <<error_msg>>, RedfishError(error_msg))
        ELSE Returns(cs, None)

\* RedfishPower.reboot, the remote system reporting power state v
reboot(n, v, gs, rs) ==
    LET current_power_state == DictGet(GET_POWER_STATE_MAP, v)
        reset ==
            IF current_power_state = POWER_ON
            THEN CallResetSystem(DictGet(SET_POWER_STATE_MAP, REBOOT))
            ELSE CallResetSystem(DictGet(SET_POWER_STATE_MAP, POWER_ON))
        error_msg == ErrorMsg("Redfish reboot failed for node", n, rs.error)
        cs == <<CallGetSystem(n), ReadPowerState(v), reset>>
    IN  IF gs # "ok"
        THEN Raises(<<CallGetSystem(n)>>, <<>>, Uncaught(gs, 0))
        ELSE IF rs.exc = "SushyError"
        THEN Raises(cs, <<error_msg>>, RedfishError(error_msg))
        ELSE Returns(cs, None)

\* a slip: the keys of the other table
get_supported_power_states_reported(n) == Returns(<<>>, DictKeys(GET_POWER_STATE_MAP))

\* RedfishPower.get_supported_power_states
get_supported_power_states(n) == Returns(<<>>, DictKeys(SET_POWER_STATE_MAP))

--------------------------------------------------------------------------
(* management.py *)

BOOT_DEVICE_MAP ==
    << <<BOOT_SOURCE_TARGET_PXE, PXE>>,
       <<BOOT_SOURCE_TARGET_HDD, DISK>>,
       <<BOOT_SOURCE_TARGET_CD, CDROM>>,
       <<BOOT_SOURCE_TARGET_BIOS_SETUP, BIOS>> >>

\* the same items, each turned round
BOOT_DEVICE_MAP_REV ==
    [i \in 1..Len(BOOT_DEVICE_MAP) |-> <<BOOT_DEVICE_MAP[i][2], BOOT_DEVICE_MAP[i][1]>>]

\* a slip: the two flags exchanged
BootSourceEnabled_exchanged(persistent) ==
    IF persistent THEN BOOT_SOURCE_ENABLED_ONCE ELSE BOOT_SOURCE_ENABLED_CONTINUOUS

\* persistent, as the enabled flag of the boot source
BootSourceEnabled(persistent) ==
    IF persistent THEN BOOT_SOURCE_ENABLED_CONTINUOUS ELSE BOOT_SOURCE_ENABLED_ONCE

\* a slip: every flag but ONCE taken as persistent
BootSourcePersistent_not_once(enabled) == enabled # BOOT_SOURCE_ENABLED_ONCE

\* the enabled flag of the boot source, as persistent
BootSourcePersistent(enabled) == enabled = BOOT_SOURCE_ENABLED_CONTINUOUS

\* RedfishManagement.get_supported_boot_devices
get_supported_boot_devices(n) == Returns(<<>>, DictKeys(BOOT_DEVICE_MAP_REV))

\* RedfishManagement.set_boot_device
set_boot_device(n, device, persistent, gs, rs) ==
    LET write == CallSetSystemBootSource(DictGet(BOOT_DEVICE_MAP_REV, device),
                                         BootSourceEnabled(persistent))
        error_msg == ErrorMsg("Redfish set boot device", n, rs.error)
    IN  IF gs # "ok"
        THEN Raises(<<CallGetSystem(n)>>, <<>>, Uncaught(gs, 0))
        ELSE IF rs.exc = "SushyError"
        THEN Raises(<<CallGetSystem(n), write>>, <<error_msg>>, RedfishError(error_msg))
        ELSE Returns(<<CallGetSystem(n), write>>, None)

\* RedfishManagement.get_boot_device, the remote system reporting boot attribute b
get_boot_device(n, b, gs) ==
    IF gs # "ok"
    THEN Raises(<<CallGetSystem(n)>>, <<>>, Uncaught(gs, 0))
    ELSE Returns(<<CallGetSystem(n), ReadBoot(b)>>,
                 [boot_device |-> DictGet(BOOT_DEVICE_MAP, b.target),
                  persistent |-> BootSourcePersistent(b.enabled)])

\* a slip: the interrupt sent only after a first reset
inject_nmi_after_restart(n, gs, rs) ==
    LET reset == CallResetSystem(RESET_NMI)
        error_msg == ErrorMsg("Redfish inject NMI", n, rs.error)
    IN  IF gs # "ok"
        THEN Raises(<<CallGetSystem(n)>>, <<>>, Uncaught(gs, 0))
        ELSE IF rs.exc = "SushyError"
        THEN Raises(<<CallGetSystem(n), reset>>, <<error_msg>>, RedfishError(error_msg))
        ELSE Returns(<<CallGetSystem(n), CallResetSystem(RESET_FORCE_RESTART), reset>>, None)

\* RedfishManagement.inject_nmi
inject_nmi(n, gs, rs) ==
    LET reset == CallResetSystem(RESET_NMI)
        error_msg == ErrorMsg("Redfish inject NMI", n, rs.error)
    IN  IF gs # "ok"
        THEN Raises(<<CallGetSystem(n)>>, <<>>, Uncaught(gs, 0))
        ELSE IF rs.exc = "SushyError"
        THEN Raises(<<CallGetSystem(n), reset>>, <<error_msg>>, RedfishError(error_msg))
        ELSE Returns(<<CallGetSystem(n), reset>>, None)

--------------------------------------------------------------------------
(* The state machine. *)

\* the boot attributes the remote system can report
BootAttributes == [target : VendorBootTargets, enabled : VendorBootEnabled]

Init ==
    /\ power_state \in VendorPowerStates
    /\ boot \in BootAttributes
    /\ node \in Nodes
    /\ op = "none"
    /\ args = <<>>
    /\ calls = <<>>
    /\ logged = <<>>
    /\ result = None
    /\ raised = NoException
    /\ met = NothingFails
    /\ lock = 0
    /\ pc = [c \in Callers |-> "idle"]
    /\ shared = [c \in Callers |-> TRUE]
    /\ method = [c \in Callers |-> "none"]
    /\ seen = [c \in Callers |-> None]
    /\ disturbed = [c \in Callers |-> FALSE]

\* one invocation of adapter method name that met o, and did what run records
Invoke(name, a, o, run) ==
    /\ op' = name
    /\ met' = o
    /\ args' = a
    /\ calls' = run.calls
    /\ logged' = run.logged
    /\ result' = run.result
    /\ raised' = run.raised
    /\ UNCHANGED <<node, callers>>

Validate ==
    \E pd \in ParseDriverInfoOutcomes :
        /\ Invoke("validate", <<>>, Resolving(pd), validate(node, pd))
        /\ UNCHANGED <<power_state, boot>>

GetPowerState ==
    \E gs \in GetSystemOutcomes :
        /\ Invoke("get_power_state", <<>>, Resolving(gs),
                  get_power_state(node, power_state, gs))
        /\ UNCHANGED <<power_state, boot>>

SetPowerState ==
    \E target \in HostPowerStates, o \in Outcomes :
        /\ Invoke("set_power_state", <<target>>, o,
                  set_power_state(node, target, o.gs, o.rs))
        /\ UNCHANGED <<power_state, boot>>

Reboot ==
    \E o \in Outcomes :
        /\ Invoke("reboot", <<>>, o, reboot(node, power_state, o.gs, o.rs))
        /\ UNCHANGED <<power_state, boot>>

GetSupportedPowerStates ==
    /\ Invoke("get_supported_power_states", <<>>, NothingFails,
              get_supported_power_states(node))
    /\ UNCHANGED <<power_state, boot>>

GetSupportedBootDevices ==
    /\ Invoke("get_supported_boot_devices", <<>>, NothingFails,
              get_supported_boot_devices(node))
    /\ UNCHANGED <<power_state, boot>>

\* persistent is False when the caller does not pass it.  A write the remote
\* system accepts is what it reports from then on.
SetBootDevice ==
    \E device \in HostBootDevices, p \in {"True", "False", "omitted"}, o \in Outcomes :
        LET persistent == p = "True"
            run == set_boot_device(node, device, persistent, o.gs, o.rs)
        IN  /\ Invoke("set_boot_device", <<device, p>>, o, run)
            /\ boot' = IF run.raised = NoException
                       THEN [target |-> run.calls[2][2], enabled |-> run.calls[2][3]]
                       ELSE boot
            /\ UNCHANGED power_state

GetBootDevice ==
    \E gs \in GetSystemOutcomes :
        /\ Invoke("get_boot_device", <<>>, Resolving(gs),
                  get_boot_device(node, boot, gs))
        /\ UNCHANGED <<power_state, boot>>

InjectNmi ==
    \E o \in Outcomes :
        /\ Invoke("inject_nmi", <<>>, o, inject_nmi(node, o.gs, o.rs))
        /\ UNCHANGED <<power_state, boot>>

\* The remote system comes to report another power state.
PowerStateChanges ==
    /\ power_state' \in VendorPowerStates \ {power_state}
    /\ UNCHANGED <<boot, op, node, args, calls, logged, result, raised, met, callers>>

\* The remote system comes to report another boot attribute.
BootChanges ==
    /\ boot' \in BootAttributes \ {boot}
    /\ UNCHANGED <<power_state, op, node, args, calls, logged, result, raised, met,
                   callers>>

Next ==
    \/ Validate
    \/ GetPowerState
    \/ SetPowerState
    \/ Reboot
    \/ GetSupportedPowerStates
    \/ GetSupportedBootDevices
    \/ SetBootDevice
    \/ GetBootDevice
    \/ InjectNmi
    \/ PowerStateChanges
    \/ BootChanges

Spec == Init /\ [][Next]_vars

--------------------------------------------------------------------------
(* The adapter under the host's callers.  A caller acquires a task on the    *)
(* node, shared or exclusive, calls adapter methods through it and releases  *)
(* it; an exception leaves the caller's with block, which releases the task. *)
(* The node's exclusive lock has one holder at most; a shared task takes no  *)
(* lock.  A method is taken one remote interaction at a time.                *)

\* the last invocation's record, which SpecLocked does not keep
record == <<op, args, calls, logged, result, raised, met>>

\* the methods the callers call
Methods == {"get_power_state", "set_power_state", "reboot", "set_boot_device", "inject_nmi"}

\* a slip: reboot left without the decorator
PowerRequiresExclusiveLock_not_reboot(m) == m \in {"set_power_state"}

\* the methods of RedfishPower under @task_manager.require_exclusive_lock
PowerRequiresExclusiveLock(m) == m \in {"set_power_state", "reboot"}

\* the methods of RedfishManagement that require the exclusive lock
ManagementRequiresExclusiveLock(m) == m \in {"set_boot_device", "inject_nmi"}

\* require_exclusive_lock: the method is refused to a task acquired shared
Refused(c, m) ==
    (PowerRequiresExclusiveLock(m) \/ ManagementRequiresExclusiveLock(m)) /\ shared[c]

\* caller c is out of its method, holding its task still (to = "held") or
\* out of its with block (to = "idle"), the task released
Ends(c, to) ==
    /\ pc' = [pc EXCEPT ![c] = to]
    /\ method' = [method EXCEPT ![c] = "none"]
    /\ seen' = [seen EXCEPT ![c] = None]
    /\ lock' = IF to = "idle" /\ lock = c THEN 0 ELSE lock
    /\ shared' = IF to = "idle" THEN [shared EXCEPT ![c] = TRUE] ELSE shared

\* task_manager.acquire(context, node, shared=sh)
Acquire ==
    \E c \in Callers, sh \in BOOLEAN :
        /\ pc[c] = "idle"
        /\ ~sh => lock = 0
        /\ lock' = IF sh THEN lock ELSE c
        /\ shared' = [shared EXCEPT ![c] = sh]
        /\ pc' = [pc EXCEPT ![c] = "held"]
        /\ UNCHANGED <<power_state, boot, node, record, method, seen, disturbed>>

\* the end of the with block
Release ==
    \E c \in Callers :
        /\ pc[c] = "held"
        /\ Ends(c, "idle")
        /\ UNCHANGED <<power_state, boot, node, record, disturbed>>

\* the caller calls method m: the decorator lets it in, or raises
Call ==
    \E c \in Callers, m \in Methods :
        /\ pc[c] = "held"
        /\ IF Refused(c, m)
           THEN Ends(c, "idle")
           ELSE /\ pc' = [pc EXCEPT ![c] = "entered"]
                /\ method' = [method EXCEPT ![c] = m]
                /\ UNCHANGED <<lock, shared, seen>>
        /\ UNCHANGED <<power_state, boot, node, record, disturbed>>

\* system = redfish_utils.get_system(task.node)
Resolve ==
    \E c \in Callers, gs \in GetSystemOutcomes :
        /\ pc[c] = "entered"
        /\ IF gs = "ok"
           THEN /\ pc' = [pc EXCEPT ![c] = "resolved"]
                /\ UNCHANGED <<lock, shared, method, seen>>
           ELSE Ends(c, "idle")
        /\ UNCHANGED <<power_state, boot, node, record, disturbed>>

\* get_power_state: system.power_state read and its translation returned
ReadAndReturn ==
    \E c \in Callers :
        /\ pc[c] = "resolved"
        /\ method[c] = "get_power_state"
        /\ Ends(c, "held")
        /\ UNCHANGED <<power_state, boot, node, record, disturbed>>

\* reboot: current_power_state = GET_POWER_STATE_MAP.get(system.power_state)
RebootReads ==
    \E c \in Callers :
        /\ pc[c] = "resolved"
        /\ method[c] = "reboot"
        /\ pc' = [pc EXCEPT ![c] = "read"]
        /\ seen' = [seen EXCEPT ![c] = power_state]
        /\ disturbed' = [disturbed EXCEPT ![c] = FALSE]
        /\ UNCHANGED <<power_state, boot, node, record, lock, shared, method>>

\* caller c sends cmd, the last remote interaction of its method, which ends
\* as rs: the method returns, or raises RedfishError.  A reset that another
\* caller sends is one that caller's reboot did not count on.
Sends(c, cmd, rs) ==
    /\ disturbed' =
          [d \in Callers |->
              IF d = c THEN FALSE
              ELSE disturbed[d] \/ (pc[d] = "read" /\ cmd[1] = "reset_system")]
    /\ boot' = IF cmd[1] = "set_system_boot_source" /\ rs.exc = "none"
               THEN [target |-> cmd[2], enabled |-> cmd[3]]
               ELSE boot
    /\ Ends(c, IF rs.exc = "none" THEN "held" ELSE "idle")
    /\ UNCHANGED <<power_state, node, record>>

SetPowerStateSends ==
    \E c \in Callers, target \in HostPowerStates, rs \in RemoteCallOutcomes :
        /\ pc[c] = "resolved"
        /\ method[c] = "set_power_state"
        /\ Sends(c, set_power_state(node, target, "ok", rs).calls[2], rs)

RebootSends ==
    \E c \in Callers, rs \in RemoteCallOutcomes :
        /\ pc[c] = "read"
        /\ Sends(c, reboot(node, seen[c], "ok", rs).calls[3], rs)

SetBootDeviceSends ==
    \E c \in Callers, device \in HostBootDevices, persistent \in BOOLEAN,
       rs \in RemoteCallOutcomes :
        /\ pc[c] = "resolved"
        /\ method[c] = "set_boot_device"
        /\ Sends(c, set_boot_device(node, device, persistent, "ok", rs).calls[2], rs)

InjectNmiSends ==
    \E c \in Callers, rs \in RemoteCallOutcomes :
        /\ pc[c] = "resolved"
        /\ method[c] = "inject_nmi"
        /\ Sends(c, inject_nmi(node, "ok", rs).calls[2], rs)

NextLocked ==
    \/ Acquire
    \/ Release
    \/ Call
    \/ Resolve
    \/ ReadAndReturn
    \/ RebootReads
    \/ SetPowerStateSends
    \/ RebootSends
    \/ SetBootDeviceSends
    \/ InjectNmiSends
    \/ PowerStateChanges

SpecLocked == Init /\ [][NextLocked]_vars

--------------------------------------------------------------------------
(* The properties. *)

\* how many of the last invocation's remote interactions are fn
Count(fn) == Cardinality({i \in 1..Len(calls) : calls[i][1] = fn})

\* the last invocation got its handle
HandleResolved == met.gs = "ok"

\* the reset command the contract gives for a target power state
ExpectedReset(target) ==
    CASE target = POWER_ON -> RESET_ON
      [] target = POWER_OFF -> RESET_FORCE_OFF
      [] target = REBOOT -> RESET_FORCE_RESTART
      [] OTHER -> None

\* C1: set_power_state(node, t), t one of ON, OFF and REBOOT, resolves the
\* remote handle exactly once and, having it, issues exactly one reset_system
\* call, with the command mapped to t (ON: RESET_ON, OFF: RESET_FORCE_OFF,
\* REBOOT: RESET_FORCE_RESTART), and makes no other remote call: it neither
\* reads the power state nor writes the boot source.
C1_SetPowerStateOneMappedReset ==
    (op = "set_power_state" /\ args[1] \in {POWER_ON, POWER_OFF, REBOOT}) =>
        /\ Count("get_system") = 1
        /\ calls[1] = CallGetSystem(node)
        /\ HandleResolved =>
            calls = <<CallGetSystem(node), CallResetSystem(ExpectedReset(args[1]))>>

C1_Witness ==
    /\ op = "set_power_state"
    /\ args[1] = REBOOT
    /\ raised = NoException
    /\ calls = <<CallGetSystem(node), CallResetSystem(RESET_FORCE_RESTART)>>

\* C2, as claimed: reboot(node) reads the reported power state and then issues
\* exactly one reset_system call, RESET_FORCE_RESTART when the reported state
\* is ON and RESET_ON when it is any other value, POWERING_ON included.
C2_RebootRestartsOnlyWhenReportedOn ==
    (op = "reboot" /\ HandleResolved) =>
        \E v \in VendorPowerStates :
            calls = <<CallGetSystem(node), ReadPowerState(v),
                      CallResetSystem(IF v = SYSTEM_POWER_STATE_ON
                                      THEN RESET_FORCE_RESTART ELSE RESET_ON)>>

\* C2, amended: reboot(node) reads the reported power state and then issues
\* exactly one reset_system call, RESET_FORCE_RESTART when the reported state
\* translates to POWER_ON (ON or POWERING_ON) and RESET_ON when it does not
\* (OFF, POWERING_OFF or a value the adapter does not map).
C2_RebootRestartsWhenTranslatedOn ==
    (op = "reboot" /\ HandleResolved) =>
        \E v \in VendorPowerStates :
            calls = <<CallGetSystem(node), ReadPowerState(v),
                      CallResetSystem(
                          IF v \in {SYSTEM_POWER_STATE_ON, SYSTEM_POWER_STATE_POWERING_ON}
                          THEN RESET_FORCE_RESTART ELSE RESET_ON)>>

C2_Witness ==
    /\ op = "reboot"
    /\ raised = NoException
    /\ calls = <<CallGetSystem(node), ReadPowerState(SYSTEM_POWER_STATE_POWERING_ON),
                 CallResetSystem(RESET_FORCE_RESTART)>>

\* the boot source target the contract gives for a boot device
ExpectedTarget(device) ==
    CASE device = PXE -> BOOT_SOURCE_TARGET_PXE
      [] device = DISK -> BOOT_SOURCE_TARGET_HDD
      [] device = CDROM -> BOOT_SOURCE_TARGET_CD
      [] device = BIOS -> BOOT_SOURCE_TARGET_BIOS_SETUP
      [] OTHER -> None

\* the methods that send a command, and the text each puts before the error
MutatingOps == {"set_power_state", "reboot", "set_boot_device", "inject_nmi"}
ExpectedPrefix(name) ==
    CASE name = "set_power_state" -> "Redfish set power state failed for node"
      [] name = "reboot" -> "Redfish reboot failed for node"
      [] name = "set_boot_device" -> "Redfish set boot device"
      [] name = "inject_nmi" -> "Redfish inject NMI"

\* the remote interactions of the last invocation, were its command to succeed
ExpectedCalls ==
    CASE op = "set_power_state" ->
            <<CallGetSystem(node), CallResetSystem(ExpectedReset(args[1]))>>
      [] op = "reboot" ->
            <<CallGetSystem(node), calls[2],
              CallResetSystem(
                  IF calls[2][2] \in {SYSTEM_POWER_STATE_ON, SYSTEM_POWER_STATE_POWERING_ON}
                  THEN RESET_FORCE_RESTART ELSE RESET_ON)>>
      [] op = "set_boot_device" ->
            <<CallGetSystem(node),
              CallSetSystemBootSource(
                  ExpectedTarget(args[1]),
                  IF args[2] = "True" THEN BOOT_SOURCE_ENABLED_CONTINUOUS
                  ELSE BOOT_SOURCE_ENABLED_ONCE)>>
      [] op = "inject_nmi" ->
            <<CallGetSystem(node), CallResetSystem(RESET_NMI)>>

\* C3: when the command that set_power_state, reboot, set_boot_device or
\* inject_nmi sends fails with an error of the vendor library, the method ends
\* with one RedfishError that carries the method's prefix, the node and the
\* underlying error; the command was attempted once, with the arguments of the
\* success case, and no second command (a retry, a compensation) was sent.
C3_VendorErrorNormalizedNoRetry ==
    (op \in MutatingOps /\ met.rs.exc = "SushyError") =>
        /\ raised = [type |-> "RedfishError", msg |-> ExpectedPrefix(op),
                     node |-> node, error |-> met.rs.error]
        /\ result = None
        /\ Len(logged) = 1
        /\ calls = ExpectedCalls
        /\ Count("reset_system") + Count("set_system_boot_source") = 1

C3_Witness ==
    /\ op = "set_power_state"
    /\ args[1] = POWER_ON
    /\ met.rs = [exc |-> "SushyError", error |-> NumErrors]
    /\ raised.type = "RedfishError"
    /\ raised.error = NumErrors
    /\ calls = <<CallGetSystem(node), CallResetSystem(RESET_ON)>>

\* C4: get_power_state(node) resolves the remote handle exactly once and, for
\* each of the four vendor power states, returns its translation: POWER_ON for
\* ON and POWERING_ON, POWER_OFF for OFF and POWERING_OFF.  It never returns
\* REBOOT and never sends a reset command.
C4_GetPowerStateMapped ==
    op = "get_power_state" =>
        /\ Count("get_system") = 1
        /\ calls[1] = CallGetSystem(node)
        /\ Count("reset_system") = 0
        /\ result # REBOOT
        /\ HandleResolved =>
            \E v \in VendorPowerStates :
                /\ calls = <<CallGetSystem(node), ReadPowerState(v)>>
                /\ v \in {SYSTEM_POWER_STATE_ON, SYSTEM_POWER_STATE_POWERING_ON}
                        => result = POWER_ON
                /\ v \in {SYSTEM_POWER_STATE_OFF, SYSTEM_POWER_STATE_POWERING_OFF}
                        => result = POWER_OFF

C4_Witness ==
    /\ op = "get_power_state"
    /\ calls = <<CallGetSystem(node), ReadPowerState(SYSTEM_POWER_STATE_POWERING_OFF)>>
    /\ result = POWER_OFF
    /\ raised = NoException

\* C5, as claimed, for the power state mapping: no two of the vendor power
\* states the adapter maps have the same translation, so the value that
\* get_power_state returns tells which vendor state was reported.
C5_PowerStateTranslationOneToOne ==
    (op = "get_power_state" /\ HandleResolved
        /\ calls[2][2] \in DeclaredVendorPowerStates) =>
        \A w \in DeclaredVendorPowerStates :
            DictGet(GET_POWER_STATE_MAP, w) = result => w = calls[2][2]

\* C5, amended: the mapping of target power states to reset commands and the
\* mapping of boot devices to boot source targets are total and one-to-one
\* over the values the adapter declares (the command or target sent tells
\* which target state or device was asked for, and the boot mapping read
\* backwards gives that device); the mapping of vendor power states is total
\* over the four declared values but two-to-one: ON and POWERING_ON both give
\* POWER_ON, OFF and POWERING_OFF both give POWER_OFF.
C5_MappingsTotalCommandsOneToOne ==
    /\ (op = "set_power_state" /\ HandleResolved
            /\ args[1] \in {POWER_ON, POWER_OFF, REBOOT}) =>
        /\ calls[2][2] # None
        /\ \A t \in {POWER_ON, POWER_OFF, REBOOT} :
              DictGet(SET_POWER_STATE_MAP, t) = calls[2][2] => t = args[1]
    /\ (op = "set_boot_device" /\ HandleResolved) =>
        /\ calls[2][2] \in DeclaredVendorBootTargets
        /\ \A d \in HostBootDevices :
              DictGet(BOOT_DEVICE_MAP_REV, d) = calls[2][2] => d = args[1]
        /\ DictGet(BOOT_DEVICE_MAP, calls[2][2]) = args[1]
    /\ (op = "get_boot_device" /\ HandleResolved
            /\ calls[2][2] \in DeclaredVendorBootTargets) =>
        /\ result.boot_device \in HostBootDevices
        /\ \A w \in DeclaredVendorBootTargets :
              DictGet(BOOT_DEVICE_MAP, w) = result.boot_device => w = calls[2][2]
    /\ (op = "get_power_state" /\ HandleResolved
            /\ calls[2][2] \in DeclaredVendorPowerStates) =>
        /\ result \in {POWER_ON, POWER_OFF}
        /\ \E w \in DeclaredVendorPowerStates :
              w # calls[2][2] /\ DictGet(GET_POWER_STATE_MAP, w) = result

C5_Witness ==
    /\ op = "set_power_state"
    /\ args[1] = REBOOT
    /\ HandleResolved
    /\ calls[2] = CallResetSystem(RESET_FORCE_RESTART)
    /\ \A t \in {POWER_ON, POWER_OFF} :
          DictGet(SET_POWER_STATE_MAP, t) # RESET_FORCE_RESTART

\* C6: set_boot_device(node, d, persistent=p), d one of PXE, DISK, CDROM and
\* BIOS, resolves the remote handle exactly once and, having it, issues exactly
\* one set_system_boot_source call, with the target mapped to d (PXE: PXE,
\* DISK: HDD, CDROM: CD, BIOS: BIOS_SETUP) and enabled CONTINUOUS when p is
\* true, ONCE when p is false or not passed.
C6_SetBootDeviceOneMappedWrite ==
    op = "set_boot_device" =>
        /\ Count("get_system") = 1
        /\ calls[1] = CallGetSystem(node)
        /\ HandleResolved =>
            calls = <<CallGetSystem(node),
                      CallSetSystemBootSource(
                          ExpectedTarget(args[1]),
                          IF args[2] = "True" THEN BOOT_SOURCE_ENABLED_CONTINUOUS
                          ELSE BOOT_SOURCE_ENABLED_ONCE)>>

C6_Witness ==
    /\ op = "set_boot_device"
    /\ args = <<DISK, "omitted">>
    /\ raised = NoException
    /\ calls = <<CallGetSystem(node),
                 CallSetSystemBootSource(BOOT_SOURCE_TARGET_HDD, BOOT_SOURCE_ENABLED_ONCE)>>

\* the boot device the contract gives for a reported boot source target
ExpectedDevice(target) ==
    CASE target = BOOT_SOURCE_TARGET_PXE -> PXE
      [] target = BOOT_SOURCE_TARGET_HDD -> DISK
      [] target = BOOT_SOURCE_TARGET_CD -> CDROM
      [] target = BOOT_SOURCE_TARGET_BIOS_SETUP -> BIOS
      [] OTHER -> None

\* C7: get_boot_device(node) returns the device mapped backwards from the
\* reported target, and persistent true exactly when the reported enabled flag
\* is CONTINUOUS.  So once set_boot_device(d, persistent=p) has succeeded and
\* the remote system reports what was written, get_boot_device returns
\* {boot_device: d, persistent: p}, for each of the four devices and each p.
C7_GetBootDeviceInverse ==
    /\ (op = "get_boot_device" /\ HandleResolved) =>
        \E b \in BootAttributes :
            /\ calls = <<CallGetSystem(node), ReadBoot(b)>>
            /\ result = [boot_device |-> ExpectedDevice(b.target),
                         persistent |-> (b.enabled = BOOT_SOURCE_ENABLED_CONTINUOUS)]
    /\ (op = "set_boot_device" /\ raised = NoException
            /\ boot = [target |-> calls[2][2], enabled |-> calls[2][3]]) =>
        get_boot_device(node, boot, "ok").result
            = [boot_device |-> args[1], persistent |-> (args[2] = "True")]

C7_Witness ==
    /\ op = "set_boot_device"
    /\ args = <<CDROM, "True">>
    /\ raised = NoException
    /\ boot = [target |-> BOOT_SOURCE_TARGET_CD, enabled |-> BOOT_SOURCE_ENABLED_CONTINUOUS]
    /\ get_boot_device(node, boot, "ok").result = [boot_device |-> CDROM, persistent |-> TRUE]

\* the methods that resolve the remote handle
HandleOps ==
    MutatingOps \cup {"get_power_state", "get_boot_device"}

\* C8: a connection failure or a missing or invalid parameter met while
\* resolving the remote handle (get_system, parse_driver_info) reaches the
\* caller as that same error, never as a RedfishError, with nothing logged,
\* and then no reset command and no boot source write is sent.
C8_ConnectionErrorsSurfaceUnwrapped ==
    ((op \in HandleOps \/ op = "validate") /\ met.gs # "ok") =>
        /\ raised.type = met.gs
        /\ raised.type # "RedfishError"
        /\ logged = <<>>
        /\ Len(calls) = 1
        /\ Count("reset_system") = 0
        /\ Count("set_system_boot_source") = 0

C8_Witness ==
    /\ op = "reboot"
    /\ met.gs = "RedfishConnectionError"
    /\ raised.type = "RedfishConnectionError"
    /\ calls = <<CallGetSystem(node)>>

\* C9: inject_nmi(node) resolves the remote handle exactly once and, having
\* it, issues exactly one reset_system call, with the NMI command, whatever
\* power state the remote system reports and without reading it.
C9_InjectNmiOneReset ==
    op = "inject_nmi" =>
        /\ Count("get_system") = 1
        /\ Count("power_state") = 0
        /\ HandleResolved =>
            calls = <<CallGetSystem(node), CallResetSystem(RESET_NMI)>>

C9_Witness ==
    /\ op = "inject_nmi"
    /\ power_state = SYSTEM_POWER_STATE_OFF
    /\ raised = NoException
    /\ calls = <<CallGetSystem(node), CallResetSystem(RESET_NMI)>>

\* C10: get_supported_power_states(node) returns [ON, OFF, REBOOT], in that
\* order, in every reachable state, whatever the remote system reports and
\* whatever was invoked before, and makes no remote call.
C10_SupportedPowerStatesFixed ==
    /\ get_supported_power_states(node)
          = Returns(<<>>, <<POWER_ON, POWER_OFF, REBOOT>>)
    /\ op = "get_supported_power_states" =>
        /\ result = <<POWER_ON, POWER_OFF, REBOOT>>
        /\ calls = <<>>
        /\ raised = NoException

C10_Witness ==
    /\ op = "get_supported_power_states"
    /\ result = <<POWER_ON, POWER_OFF, REBOOT>>
    /\ power_state = None
    /\ calls = <<>>

\* C12: a value outside a table is translated to None, and no error is raised
\* for it.  get_power_state returns None, raising nothing, when the remote
\* system reports a power state outside ON, POWERING_ON, OFF and POWERING_OFF;
\* set_power_state with a target outside ON, OFF and REBOOT does not refuse the
\* request: having its handle it still issues exactly one reset_system call,
\* with None as the command, and raises only if that call fails.
C12_UnmappedValuesBecomeNone ==
    /\ (op = "get_power_state" /\ HandleResolved
            /\ calls[2][2] \notin DeclaredVendorPowerStates) =>
        /\ result = None
        /\ raised = NoException
    /\ (op = "set_power_state" /\ HandleResolved
            /\ args[1] \notin {POWER_ON, POWER_OFF, REBOOT}) =>
        /\ calls = <<CallGetSystem(node), CallResetSystem(None)>>
        /\ Count("reset_system") = 1
        /\ raised.type \in {"none", "RedfishError"}
        /\ raised.type = "RedfishError" <=> met.rs.exc = "SushyError"

C12_Witness ==
    /\ op = "set_power_state"
    /\ args[1] = SOFT_POWER_OFF
    /\ raised = NoException
    /\ calls = <<CallGetSystem(node), CallResetSystem(None)>>

\* caller c is inside a method that changes the node
InProgress(c) ==
    /\ pc[c] \in {"entered", "resolved", "read"}
    /\ method[c] \in MutatingOps

\* C11: with the mutating methods (set_power_state, reboot, set_boot_device,
\* inject_nmi) entered only by a caller that holds the node's exclusive lock,
\* in every interleaving of the callers at most one mutating method is in
\* progress on the node at any time, and its caller is the lock's holder; in
\* particular no other caller's reset command reaches the node between
\* reboot's read of the power state and reboot's own reset command.
C11_OneMutatingOperationAtATime ==
    /\ Cardinality({c \in Callers : InProgress(c)}) <= 1
    /\ \A c \in Callers : InProgress(c) => lock = c /\ ~shared[c]
    /\ \A c \in Callers : pc[c] = "read" => ~disturbed[c]

C11_Witness ==
    \E c, d \in Callers :
        /\ c # d
        /\ pc[c] = "read"
        /\ lock = c
        /\ seen[c] = SYSTEM_POWER_STATE_ON
        /\ power_state = SYSTEM_POWER_STATE_OFF
        /\ pc[d] = "held"
        /\ shared[d]

====
